---- MODULE Spec2Model ----
(***************************************************************************)
(* Model of the IPFS upload client of creator-core-sdk                     *)
(* (src/src/index.ts, class IPFSClient): the single-item uploader          *)
(* uploadJSON / uploadWithRetry with its timeout race and retry budget,    *)
(* and the batch orchestrator uploadBatch with its concurrency windows,    *)
(* counters, progress snapshots and sorted result list.                    *)
(*                                                                         *)
(* The execution model is the JavaScript event loop: code between two      *)
(* awaits runs to completion, so one action is one such run.               *)
(***************************************************************************)
EXTENDS Integers, Sequences, FiniteSets, TLC

\* ------------------------------------------------------------------------
\* Bounds of the model
\* ------------------------------------------------------------------------
MaxN == 3          \* longest metadataArray
MaxC == 2          \* largest concurrency argument
MaxRetries == 1    \* largest options.retries
MaxCalls == 4      \* most client.add calls one uploadBatch call can make:
                   \* metadataArray.length * (options.retries + 1)
MaxLiveN == 2      \* longest metadataArray of the runs checked for liveness
MaxTwoN == 3       \* most payloads two overlapping invocations hold together

\* ------------------------------------------------------------------------
\* Values
\* ------------------------------------------------------------------------
DEFAULT_GATEWAY == "https://nft.storage"

\* An optional value is a sequence of length 0 or 1.
None == <<>>
Some(v) == <<v>>

\* new Error(message)
Error(message) ==
  [type |-> "Error", message |-> message, code |-> "", cause |-> None]

\* a thrown value that is not an Error: a string
Thrown(text) ==
  [type |-> "string", message |-> text, code |-> "", cause |-> None]

\* new IPFSError(message, code, cause)
IPFSError(message, code, cause) ==
  [type |-> "IPFSError", message |-> message, code |-> code, cause |-> cause]

\* error instanceof Error
InstanceOfError(error) == error.type \in {"Error", "IPFSError"}

\* error instanceof Error ? error.message : String(error)
MessageOf(error) == error.message

\* ------------------------------------------------------------------------
\* isRetryableError: case-insensitive substring match
\* ------------------------------------------------------------------------
UpperChars == "ABCDEFGHIJKLMNOPQRSTUVWXYZ"
LowerChars == "abcdefghijklmnopqrstuvwxyz"

\* The lower-case letter of every upper-case letter
LowerOf ==
  [c \in {SubSeq(UpperChars, k, k) : k \in 1..Len(UpperChars)} |->
     LET k == CHOOSE k \in 1..Len(UpperChars) : SubSeq(UpperChars, k, k) = c
     IN  SubSeq(LowerChars, k, k)]

\* String.prototype.toLowerCase on one character
LowerChar(c) == IF c \in DOMAIN LowerOf THEN LowerOf[c] ELSE c

\* Mutant: the comparison is case-sensitive
toLowerCase_CaseSensitive(s) == s

RECURSIVE toLowerCase(_)
toLowerCase(s) ==
  IF Len(s) = 0 THEN ""
  ELSE LowerChar(SubSeq(s, 1, 1)) \o toLowerCase(SubSeq(s, 2, Len(s)))

\* Mutant: the message must be the substring itself
includes_WholeMessage(s, sub) == s = sub

\* String.prototype.includes
includes(s, sub) ==
  \E k \in 1..(Len(s) - Len(sub) + 1) : SubSeq(s, k, k + Len(sub) - 1) = sub

retryableMessages ==
  {"network", "timeout", "ECONNREFUSED", "ENOTFOUND", "ETIMEDOUT",
   "socket hang up"}

\* msg.toLowerCase() for every msg of retryableMessages
retryableLowered == {toLowerCase(msg) : msg \in retryableMessages}

\* Mutant: every Error is taken for a retryable one
isRetryableError_AnyError(error) == InstanceOfError(error)

isRetryableError(error) ==
  IF ~InstanceOfError(error) THEN FALSE
  ELSE LET message == toLowerCase(error.message) IN
       \E msg \in retryableLowered : includes(message, msg)

\* ------------------------------------------------------------------------
\* The transport (client.add) and the timer (createTimeout), seen from the
\* race of one attempt
\* ------------------------------------------------------------------------
\* The payload at position k of the input list (0-based), as in the tests.
Payload(k) == "NFT #" \o ToString(k)

\* The storage network is content-addressed: result.cid.toString()
Cid(payload) == "Qm" \o payload

\* Values client.add may reject with: an Error whose message
\* isRetryableError matches, one it does not match, one that carries the
\* message of createTimeout's own error, and a value that is no Error
TransportErrors ==
  {Error("Network request failed"), Error("Invalid metadata schema"),
   Error("Upload timeout"), Thrown("boom")}

\* Values client.add may resolve with: an object with a cid and an object
\* without one
TransportResults(payload) ==
  {[kind |-> "object", cid |-> Some(Cid(payload))],
   [kind |-> "object", cid |-> None]}

\* The transport call settles first
TransportOutcomes(payload) ==
  {[by |-> "transport", settle |-> "resolve", result |-> Some(r),
    error |-> None] : r \in TransportResults(payload)}
  \cup
  {[by |-> "transport", settle |-> "reject", result |-> None,
    error |-> Some(e)] : e \in TransportErrors}

\* createTimeout: the timer settles first
TimeoutOutcome ==
  [by |-> "timer", settle |-> "reject", result |-> None,
   error |-> Some(Error("Upload timeout"))]

\* ------------------------------------------------------------------------
\* uploadWithRetry, from the point where Promise.race has settled
\* ------------------------------------------------------------------------
\* Mutant: the gateway URL is built on the default gateway
UploadResponse_DefaultGateway(hash, options) ==
  [url |-> "ipfs://" \o hash, hash |-> hash,
   gatewayUrl |-> DEFAULT_GATEWAY \o "/ipfs/" \o hash]

\* url, hash and gatewayUrl of the value returned on success
UploadResponse(hash, options) ==
  [url |-> "ipfs://" \o hash, hash |-> hash,
   gatewayUrl |-> options.gateway \o "/ipfs/" \o hash]

\* the try block after the await
TryBlock(o, options) ==
  IF o.settle = "reject"
  THEN [threw |-> TRUE, error |-> o.error, response |-> None]
  ELSE LET result == o.result[1] IN
       IF result.kind # "object" \/ result.cid = None
       THEN [threw |-> TRUE,
             error |-> Some(IPFSError("Invalid response from IPFS",
                                      "INVALID_RESPONSE", None)),
             response |-> None]
       ELSE LET hash == result.cid[1] IN
            [threw |-> FALSE, error |-> None,
             response |-> Some(UploadResponse(hash, options))]

\* Mutant: one retry too many
RetriesRemain_OffByOne(retriesLeft) == retriesLeft >= 0

\* retriesLeft > 0
RetriesRemain(retriesLeft) == retriesLeft > 0

\* Mutant: the message reports the retries left
TimedOutMessage_RetriesLeft(retriesLeft, options) ==
  "Upload timed out after " \o ToString(retriesLeft) \o " retries"

\* `Upload timed out after ${this.options.retries} retries`, built where
\* both retriesLeft and this.options are in scope
TimedOutMessage(retriesLeft, options) ==
  "Upload timed out after " \o ToString(options.retries) \o " retries"

\* Mutant: a transport error is retried while retries remain
RetryTransportError_WhileRetriesRemain(error, retriesLeft) ==
  RetriesRemain(retriesLeft)

\* retriesLeft > 0 && this.isRetryableError(error)
RetryTransportError(error, retriesLeft) ==
  RetriesRemain(retriesLeft) /\ isRetryableError(error)

\* the catch block
CatchBlock(error, retriesLeft, options) ==
  IF InstanceOfError(error) /\ error.message = "Upload timeout"
  THEN IF RetriesRemain(retriesLeft)
       THEN [retry |-> TRUE, error |-> None]
       ELSE [retry |-> FALSE,
             error |-> Some(IPFSError(TimedOutMessage(retriesLeft, options),
                                      "TIMEOUT", Some(error)))]
  ELSE IF RetryTransportError(error, retriesLeft)
       THEN [retry |-> TRUE, error |-> None]
       ELSE [retry |-> FALSE,
             error |-> Some(IPFSError("IPFS upload failed: "
                                      \o MessageOf(error),
                                      "UPLOAD_FAILED",
                                      IF InstanceOfError(error)
                                      THEN Some(error) ELSE None))]

\* What one call frame of uploadWithRetry does once its race has settled
\* with o: return a response, call itself again, or throw.
uploadWithRetry(o, retriesLeft, options) ==
  LET t == TryBlock(o, options) IN
  IF ~t.threw
  THEN [next |-> "return", response |-> t.response, error |-> None]
  ELSE LET c == CatchBlock(t.error[1], retriesLeft, options) IN
       IF c.retry
       THEN [next |-> "retry", response |-> None, error |-> None]
       ELSE [next |-> "throw", response |-> None, error |-> c.error]

\* ------------------------------------------------------------------------
\* State
\* ------------------------------------------------------------------------
VARIABLES
  metadataArray,  \* uploadBatch argument: the payloads
  concurrency,    \* uploadBatch argument
  onProgress,     \* uploadBatch argument: TRUE iff a callback was supplied;
                  \* in Spec the callback returns normally
  options,        \* this.options
  client,         \* this.client: "null" or "handle"
  created,        \* number of handles create() has constructed so far
  pc,             \* position of uploadBatch: "call", "await", "done"
  i,              \* loop variable of uploadBatch
  results, errors, successful, failed, inProgress,  \* locals of uploadBatch
  uploads,        \* per position of metadataArray (0-based): the promise of
                  \* this.uploadJSON(metadata) and the retriesLeft of its
                  \* running call frame
  calls,          \* per item of the window being processed: number of
                  \* client.add calls made for it
  attempts,       \* per item of the window being processed: how the race
                  \* of each decided attempt settled
  started,        \* the positions uploadJSON was called for, in call order
  abandoned,      \* client.add calls that lost their race, not yet settled
  staleTimers,    \* timers whose attempt client.add decided, not yet fired
  snapshots,      \* the arguments onProgress was invoked with, in order
  returned,       \* the value uploadBatch resolved with, if it has
  probe,          \* an input held beside the instance: the argument of a
                  \* direct call of isRetryableError and, once it has
                  \* returned, its result; or the constructor's argument
  other,          \* a second uploadBatch invocation on the same instance:
                  \* its arguments, its position and its locals
  hook            \* useBatchUpload: the state of the hook that owns the
                  \* instance, and where its uploadBatch call is

vars == <<metadataArray, concurrency, onProgress, options, client, created,
          pc, i,
          results, errors, successful, failed, inProgress, uploads, calls,
          attempts, started, abandoned, staleTimers, snapshots,
          returned, probe, other, hook>>

args == <<metadataArray, concurrency, onProgress, options>>

\* the state beside the instance and its uploadBatch invocation
beside == <<probe, other, hook>>

total == Len(metadataArray)
Items == 0 .. (total - 1)

Min(a, b) == IF a < b THEN a ELSE b

DEFAULT_OPTIONS ==
  [gateway |-> DEFAULT_GATEWAY, timeout |-> 30000, retries |-> 3, pin |-> TRUE]

\* Mutant: the argument replaces the defaults
Construct_NoDefaults(given) ==
  [key \in DOMAIN DEFAULT_OPTIONS |->
     IF key \in DOMAIN given THEN given[key] ELSE ""]

\* constructor: this.options = { ...DEFAULT_OPTIONS, ...options }
Construct(given) ==
  [key \in DOMAIN DEFAULT_OPTIONS |->
     IF key \in DOMAIN given THEN given[key] ELSE DEFAULT_OPTIONS[key]]

\* the instance was constructed with the default gateway
InitArgs ==
  /\ \E n \in 0..MaxN, r \in 0..MaxRetries :
        /\ n * (r + 1) <= MaxCalls
        /\ metadataArray = [k \in 1..n |-> Payload(k - 1)]
        /\ options = [DEFAULT_OPTIONS EXCEPT !.retries = r]
  /\ concurrency \in 1..MaxC
  /\ onProgress \in BOOLEAN

\* no call has been made
InitLocals ==
  /\ client = "null"
  /\ created = 0
  /\ pc = "call"
  /\ i = 0
  /\ results = <<>>
  /\ errors = <<>>
  /\ successful = 0
  /\ failed = 0
  /\ inProgress = 0
  /\ uploads = [k \in Items |->
                  [state |-> "unstarted", retriesLeft |-> 0,
                   response |-> None, error |-> None]]
  /\ calls = [k \in Items |-> 0]
  /\ attempts = [k \in Items |-> <<>>]
  /\ started = <<>>
  /\ abandoned = 0
  /\ staleTimers = 0
  /\ snapshots = <<>>
  /\ returned = None

InitBatch == InitArgs /\ InitLocals

\* useState('idle'), useState(null) three times; uploadBatch of the hook not
\* called yet
HookIdle ==
  [phase |-> "idle", status |-> "idle", progress |-> None, results |-> None,
   error |-> None, ret |-> "pending"]

\* nothing else is going on
InitBeside ==
  /\ probe = None
  /\ other = None
  /\ hook = HookIdle

Init == InitBatch /\ InitBeside

\* ------------------------------------------------------------------------
\* uploadBatch
\* ------------------------------------------------------------------------
\* The snapshot updateProgress builds from the locals
Snapshot(inProg, succ, fail, errs) ==
  [inProgress |-> inProg, total |-> total, successful |-> succ,
   failed |-> fail, errors |-> errs]

\* Mutant: errors: errors, every snapshot holds the live errors array
Delivered_SharedErrors(snaps, errs) ==
  [j \in 1..Len(snaps) |-> [snaps[j] EXCEPT !.errors = errs]]

\* errors: [...errors], a snapshot holds its own copy of the errors array:
\* the snapshots delivered so far as they are when errors has become errs
Delivered(snaps, errs) == snaps

\* Mutant: the callback is not told that an item is over
updateProgress_Silent(inProg, succ, fail, errs) == snapshots

\* updateProgress(): the snapshots the callback has received afterwards
updateProgress(inProg, succ, fail, errs) ==
  IF onProgress
  THEN Append(Delivered(snapshots, errs), Snapshot(inProg, succ, fail, errs))
  ELSE snapshots

\* getClient(): this.client after the call
getClient(c) == IF c = "null" THEN "handle" ELSE c

\* getClient(): the handles constructed after the call, n before it;
\* create() runs when this.client is null
Created(c, n) == IF c = "null" THEN n + 1 ELSE n

\* Mutant: the loop is left after the first failure
LoopTest_AbortOnFailure(j) == j < total /\ failed = 0

\* the loop test: i < metadataArray.length
LoopTest(j) == j < total

\* Mutant: a window holds one item at least
Window_AtLeastOne(j) ==
  j .. (Min(j + (IF concurrency < 1 THEN 1 ELSE concurrency), total) - 1)

\* Mutant: the slice is one item too long
Window_TooLong(j) == j .. (Min(j + concurrency + 1, total) - 1)

\* metadataArray.slice(j, j + concurrency), as the positions it holds
Window(j) == j .. (Min(j + concurrency, total) - 1)

\* Mutant: the index within the window is recorded
ItemIndex_BatchIndex(j, batchIndex) == batchIndex

\* const index = i + batchIndex
ItemIndex(j, batchIndex) == j + batchIndex

\* Mutant: the first callback that is over ends the wait
AllSettled_Any(W) == \E k \in W : uploads[k].state # "pending"

\* await Promise.all(batchPromises): every callback of the window is over
AllSettled(W) == \A k \in W : uploads[k].state # "pending"

\* results.push({index, success: true, response})
PushSuccess(rs, index, response) ==
  Append(rs, [index |-> index, success |-> TRUE, response |-> response,
              error |-> None])

\* results.push({index, success: false, error: errorMessage})
PushFailure(rs, index, errorMessage) ==
  Append(rs, [index |-> index, success |-> FALSE, response |-> None,
              error |-> Some(errorMessage)])

\* Mutant: the entry does not name the item
ErrorEntry_NoIndex(index, errorMessage) == errorMessage

\* `Index ${index}: ${errorMessage}`
ErrorEntry(index, errorMessage) ==
  "Index " \o ToString(index) \o ": " \o errorMessage

\* Mutant: the failure is not counted
CountFailure_Forgotten(fail) == fail

\* Mutant: a failure is counted twice
CountFailure_Twice(fail) == fail + 2

\* failed++
CountFailure(fail) == fail + 1

\* results.sort((a, b) => a.index - b.index): a stable sort by index
RECURSIVE Insert(_, _)
Insert(sorted, r) ==
  IF sorted = <<>> THEN <<r>>
  ELSE IF sorted[Len(sorted)].index <= r.index
       THEN Append(sorted, r)
       ELSE Append(Insert(SubSeq(sorted, 1, Len(sorted) - 1), r),
                   sorted[Len(sorted)])

\* Mutant: the results stay in completion order
SortByIndex_Unsorted(rs) == rs

RECURSIVE SortByIndex(_)
SortByIndex(rs) ==
  IF rs = <<>> THEN <<>>
  ELSE Insert(SortByIndex(SubSeq(rs, 1, Len(rs) - 1)), rs[Len(rs)])

\* One pass of batch.map over the window starting at j: each callback runs
\* up to its first await, in input order: inProgress++, updateProgress(),
\* then uploadJSON -> uploadWithRetry -> getClient, client.add and
\* createTimeout, and the race is awaited.
StartWindow(j) ==
  LET W == Window(j)
      n == Cardinality(W) IN
  /\ inProgress' = inProgress + n
  /\ snapshots' =
       IF onProgress
       THEN snapshots \o [m \in 1..n |->
                            Snapshot(inProgress + m, successful, failed,
                                     errors)]
       ELSE snapshots
  /\ client' = IF n > 0 THEN getClient(client) ELSE client
  /\ created' = IF n > 0 THEN Created(client, created) ELSE created
  /\ uploads' = [k \in Items |->
                   IF k \in W
                   THEN [state |-> "pending",
                         retriesLeft |-> options.retries,
                         response |-> None, error |-> None]
                   ELSE uploads[k]]
  /\ calls' = [k \in Items |-> IF k \in W THEN 1 ELSE 0]
  /\ attempts' = [k \in Items |-> <<>>]
  /\ started' = started \o [m \in 1..n |-> j + m - 1]
  /\ UNCHANGED <<results, errors, successful, failed, abandoned, staleTimers,
                 returned>>

\* Mutant: the batch is a success as soon as one item succeeded
BatchSuccess_AnySucceeded(succ, fail) == succ > 0

\* Mutant: a batch in which nothing succeeded is no success
BatchSuccess_NeedsSuccess(succ, fail) == fail = 0 /\ succ > 0

\* success: failed === 0
BatchSuccess(succ, fail) == fail = 0

\* After the loop: sort, build the final progress, return
Return ==
  /\ results' = SortByIndex(results)
  /\ returned' = Some([results |-> results',
                       success |-> BatchSuccess(successful, failed),
                       progress |-> Snapshot(0, successful, failed, errors)])
  /\ UNCHANGED <<errors, successful, failed, inProgress, uploads,
                 calls, attempts, started, abandoned, staleTimers,
                 snapshots>>

\* the call returns to a caller that leaves the instance alone
Finish ==
  /\ Return
  /\ UNCHANGED <<client, created>>

\* The for loop from its test with the loop variable at j: either the next
\* window is started and awaited, or the loop is left and the call returns.
Loop(j) ==
  /\ i' = j
  /\ IF LoopTest(j)
     THEN StartWindow(j) /\ pc' = "await"
     ELSE Finish /\ pc' = "done"

\* uploadBatch is called: it runs up to its first await, or to its end
\* when the list is empty.
UploadBatch ==
  /\ pc = "call"
  /\ Loop(0)
  /\ UNCHANGED args
  /\ UNCHANGED beside

\* The race of the running attempt of the item at position k has settled
\* with o: the rest of uploadWithRetry runs and, when the upload is over,
\* the rest of the item's callback in uploadBatch.
Settle(k, o) ==
  LET a == uploadWithRetry(o, uploads[k].retriesLeft, options)
      index == ItemIndex(i, k - i) IN
  /\ attempts' = [attempts EXCEPT ![k] = Append(@, o)]
  /\ IF a.next = "retry"
     THEN \* return this.uploadWithRetry(metadata, retriesLeft - 1)
          /\ uploads' = [uploads EXCEPT ![k].retriesLeft = @ - 1]
          /\ calls' = [calls EXCEPT ![k] = @ + 1]
          /\ client' = getClient(client)
          /\ created' = Created(client, created)
          /\ UNCHANGED <<results, errors, successful, failed, inProgress,
                         snapshots>>
     ELSE IF a.next = "return"
     THEN \* the try branch of the item's callback
          /\ uploads' = [uploads EXCEPT ![k].state = "fulfilled",
                                        ![k].retriesLeft = 0,
                                        ![k].response = a.response]
          /\ inProgress' = inProgress - 1
          /\ successful' = successful + 1
          /\ results' = PushSuccess(results, index, a.response)
          /\ snapshots' = updateProgress(inProgress', successful', failed,
                                         errors)
          /\ UNCHANGED <<errors, failed, calls, client, created>>
     ELSE \* the catch branch of the item's callback
          LET errorMessage == MessageOf(a.error[1]) IN
          /\ uploads' = [uploads EXCEPT ![k].state = "rejected",
                                        ![k].retriesLeft = 0,
                                        ![k].error = a.error]
          /\ inProgress' = inProgress - 1
          /\ failed' = CountFailure(failed)
          /\ errors' = Append(errors, ErrorEntry(index, errorMessage))
          /\ results' = PushFailure(results, index, errorMessage)
          /\ snapshots' = updateProgress(inProgress', successful, failed',
                                         errors')
          /\ UNCHANGED <<successful, calls, client, created>>
  /\ UNCHANGED <<pc, i, started, returned>>
  /\ UNCHANGED args

\* client.add settles before the timer of the attempt
TransportSettles(k) ==
  /\ pc = "await"
  /\ uploads[k].state = "pending"
  /\ \E o \in TransportOutcomes(metadataArray[k + 1]) : Settle(k, o)
  /\ staleTimers' = staleTimers + 1
  /\ UNCHANGED abandoned
  /\ UNCHANGED beside

\* Mutant: the timer never rejects
TimerFires_NeverRejects(k) ==
  /\ FALSE
  /\ UNCHANGED vars

\* the timer of the attempt fires before client.add settles; the
\* client.add call stays outstanding
TimerFires(k) ==
  /\ pc = "await"
  /\ uploads[k].state = "pending"
  /\ Settle(k, TimeoutOutcome)
  /\ abandoned' = abandoned + 1
  /\ UNCHANGED staleTimers
  /\ UNCHANGED beside

\* Mutant: the late result is counted as one more success
LateSettle_Recorded ==
  /\ abandoned > 0
  /\ abandoned' = abandoned - 1
  /\ successful' = successful + 1
  /\ UNCHANGED <<client, created, pc, i, results, errors, failed, inProgress,
                 uploads, calls, attempts, started, staleTimers, snapshots,
                 returned>>
  /\ UNCHANGED args
  /\ UNCHANGED beside

\* a client.add call that lost its race settles: nobody awaits it
LateSettle ==
  /\ abandoned > 0
  /\ abandoned' = abandoned - 1
  /\ UNCHANGED <<client, created, pc, i, results, errors, successful, failed,
                 inProgress, uploads, calls, attempts, started, staleTimers,
                 snapshots, returned>>
  /\ UNCHANGED args
  /\ UNCHANGED beside

\* a timer whose race client.add had already settled fires: the rejection
\* of its promise goes to a race that is over
LateTimer ==
  /\ staleTimers > 0
  /\ staleTimers' = staleTimers - 1
  /\ UNCHANGED <<client, created, pc, i, results, errors, successful, failed,
                 inProgress, uploads, calls, attempts, started, abandoned,
                 snapshots, returned>>
  /\ UNCHANGED args
  /\ UNCHANGED beside

\* Promise.all(batchPromises) resolves: i += concurrency and the loop goes on
WindowDone ==
  /\ pc = "await"
  /\ AllSettled(Window(i))
  /\ Loop(i + concurrency)
  /\ UNCHANGED args
  /\ UNCHANGED beside

Next ==
  \/ UploadBatch
  \/ \E k \in Items : TransportSettles(k)
  \/ \E k \in Items : TimerFires(k)
  \/ LateSettle
  \/ LateTimer
  \/ WindowDone

Spec == Init /\ [][Next]_vars

\* The scheduling the event loop gives: a call that is made runs, the
\* continuation of a resolved Promise.all runs, and the timer setTimeout
\* armed for a running attempt fires unless client.add settles first.
\* Nothing makes client.add settle.
FairInit == Init /\ total <= MaxLiveN

FairSpec ==
  /\ FairInit
  /\ [][Next]_vars
  /\ WF_vars(UploadBatch)
  /\ WF_vars(WindowDone)
  /\ \A k \in 0..(MaxLiveN - 1) : WF_vars(k \in Items /\ TimerFires(k))

\* ------------------------------------------------------------------------
\* disconnect called on the instance, at any point of a batch
\* ------------------------------------------------------------------------
\* disconnect(): if (this.client) this.client = null. The attempts in
\* flight keep the handle they took from getClient.
Disconnect ==
  /\ client' = "null"
  /\ UNCHANGED <<created, pc, i, results, errors, successful, failed,
                 inProgress, uploads, calls, attempts, started, abandoned,
                 staleTimers, snapshots, returned>>
  /\ UNCHANGED args
  /\ UNCHANGED beside

InitDisconnect == Init /\ total <= MaxLiveN

NextDisconnect ==
  \/ Next
  \/ Disconnect

SpecDisconnect == InitDisconnect /\ [][NextDisconnect]_vars

\* ------------------------------------------------------------------------
\* A second uploadBatch invocation on the same instance
\* ------------------------------------------------------------------------
\* The locals of an invocation live in its own call frame; the two
\* invocations share this.client and this.options. A frame holds the
\* arguments (a callback is supplied), the position and the locals.
FrameOf(list, c) ==
  [metadataArray |-> list, concurrency |-> c, pc |-> "call", i |-> 0,
   results |-> <<>>, errors |-> <<>>, successful |-> 0, failed |-> 0,
   inProgress |-> 0,
   uploads |-> [k \in 0..(Len(list) - 1) |->
                  [state |-> "unstarted", retriesLeft |-> 0]],
   snapshots |-> <<>>, returned |-> None]

\* Mutant: total is kept where both invocations write it
FrameTotal_Shared(f) == total

\* const total = metadataArray.length
FrameTotal(f) == Len(f.metadataArray)

\* metadataArray.slice(j, j + concurrency), as the positions it holds
FrameWindow(f, j) == j .. (Min(j + f.concurrency, FrameTotal(f)) - 1)

\* the snapshot updateProgress builds from the locals of the frame
FrameSnapshot(f) ==
  [inProgress |-> f.inProgress, total |-> FrameTotal(f),
   successful |-> f.successful, failed |-> f.failed, errors |-> f.errors]

\* updateProgress()
FrameUpdateProgress(f) ==
  [f EXCEPT !.snapshots = Append(@, FrameSnapshot(f))]

\* batch.map over the window starting at j, up to the awaits
FrameStartWindow(f, j) ==
  LET W == FrameWindow(f, j)
      n == Cardinality(W) IN
  [f EXCEPT
     !.pc = "await",
     !.i = j,
     !.inProgress = @ + n,
     !.snapshots = @ \o [m \in 1..n |->
                           [FrameSnapshot(f) EXCEPT
                              !.inProgress = f.inProgress + m]],
     !.uploads = [k \in DOMAIN f.uploads |->
                    IF k \in W
                    THEN [state |-> "pending",
                          retriesLeft |-> options.retries]
                    ELSE f.uploads[k]]]

\* after the loop: sort, build the final progress, return
FrameFinish(f, j) ==
  [f EXCEPT
     !.pc = "done",
     !.i = j,
     !.results = SortByIndex(@),
     !.returned = Some([results |-> SortByIndex(f.results),
                        success |-> BatchSuccess(f.successful, f.failed),
                        progress |-> [FrameSnapshot(f) EXCEPT
                                        !.inProgress = 0]])]

\* the for loop from its test with the loop variable at j
FrameLoop(f, j) ==
  IF j < FrameTotal(f) THEN FrameStartWindow(f, j) ELSE FrameFinish(f, j)

\* the race of the running attempt of item k has settled with o
FrameSettle(f, k, o) ==
  LET a == uploadWithRetry(o, f.uploads[k].retriesLeft, options)
      index == ItemIndex(f.i, k - f.i) IN
  IF a.next = "retry"
  THEN [f EXCEPT !.uploads[k].retriesLeft = @ - 1]
  ELSE IF a.next = "return"
  THEN FrameUpdateProgress(
         [f EXCEPT !.uploads[k].state = "fulfilled",
                   !.inProgress = @ - 1,
                   !.successful = @ + 1,
                   !.results = PushSuccess(@, index, a.response)])
  ELSE LET errorMessage == MessageOf(a.error[1]) IN
       FrameUpdateProgress(
         [f EXCEPT !.uploads[k].state = "rejected",
                   !.inProgress = @ - 1,
                   !.failed = CountFailure(@),
                   !.errors = Append(@, ErrorEntry(index, errorMessage)),
                   !.results = PushFailure(@, index, errorMessage)])

\* what the second invocation cannot name: the locals of the first
firstLocals ==
  <<pc, i, results, errors, successful, failed, inProgress, uploads, calls,
    attempts, started, snapshots, returned>>

\* the second invocation is called
OtherUploadBatch ==
  /\ other # None
  /\ other[1].pc = "call"
  /\ other' = Some(FrameLoop(other[1], 0))
  /\ client' = IF other'[1].pc = "await" THEN getClient(client) ELSE client
  /\ created' = IF other'[1].pc = "await" THEN Created(client, created)
                                          ELSE created
  /\ UNCHANGED <<firstLocals, abandoned, staleTimers, probe, hook>>
  /\ UNCHANGED args

\* an attempt of the second invocation is decided with o
OtherSettle(k, o) ==
  LET a == uploadWithRetry(o, other[1].uploads[k].retriesLeft, options) IN
  /\ other[1].pc = "await"
  /\ other[1].uploads[k].state = "pending"
  /\ other' = Some(FrameSettle(other[1], k, o))
  /\ client' = IF a.next = "retry" THEN getClient(client) ELSE client
  /\ created' = IF a.next = "retry" THEN Created(client, created)
                                    ELSE created
  /\ UNCHANGED <<firstLocals, probe, hook>>
  /\ UNCHANGED args

\* client.add settles before the timer of the attempt
OtherTransportSettles(k) ==
  /\ other # None
  /\ k \in DOMAIN other[1].uploads
  /\ \E o \in TransportOutcomes(other[1].metadataArray[k + 1]) :
       OtherSettle(k, o)
  /\ staleTimers' = staleTimers + 1
  /\ UNCHANGED abandoned

\* the timer of the attempt fires before client.add settles
OtherTimerFires(k) ==
  /\ other # None
  /\ k \in DOMAIN other[1].uploads
  /\ OtherSettle(k, TimeoutOutcome)
  /\ abandoned' = abandoned + 1
  /\ UNCHANGED staleTimers

\* Promise.all of the second invocation resolves
OtherWindowDone ==
  /\ other # None
  /\ other[1].pc = "await"
  /\ \A k \in FrameWindow(other[1], other[1].i) :
       other[1].uploads[k].state # "pending"
  /\ other' = Some(FrameLoop(other[1], other[1].i + other[1].concurrency))
  /\ client' = IF other'[1].pc = "await" THEN getClient(client) ELSE client
  /\ created' = IF other'[1].pc = "await" THEN Created(client, created)
                                          ELSE created
  /\ UNCHANGED <<firstLocals, abandoned, staleTimers, probe, hook>>
  /\ UNCHANGED args

\* Two invocations with callbacks on an instance that does not retry; the
\* second list holds other payloads than the first
InitTwo ==
  /\ InitBatch
  /\ total >= 1
  /\ onProgress
  /\ options.retries = 0
  /\ probe = None
  /\ hook = HookIdle
  /\ \E n \in 1..MaxTwoN, c \in 1..MaxC :
       /\ total + n <= MaxTwoN
       /\ other = Some(FrameOf([k \in 1..n |-> Payload(MaxN + k - 1)], c))

\* The steps of both invocations, in any order. The losers of the races
\* are left to settle after the runs looked at here.
NextTwo ==
  \/ UploadBatch
  \/ \E k \in Items : TransportSettles(k)
  \/ \E k \in Items : TimerFires(k)
  \/ WindowDone
  \/ OtherUploadBatch
  \/ \E k \in 0..(MaxTwoN - 1) : OtherTransportSettles(k)
  \/ \E k \in 0..(MaxTwoN - 1) : OtherTimerFires(k)
  \/ OtherWindowDone

SpecTwo == InitTwo /\ [][NextTwo]_vars

\* ------------------------------------------------------------------------
\* uploadBatch called with any concurrency from 0: the parameter is used as
\* it is passed
\* ------------------------------------------------------------------------
InitZero ==
  /\ \E n \in 0..MaxLiveN, r \in 0..MaxRetries :
        /\ n * (r + 1) <= MaxCalls
        /\ metadataArray = [k \in 1..n |-> Payload(k - 1)]
        /\ options = [DEFAULT_OPTIONS EXCEPT !.retries = r]
  /\ concurrency \in 0..MaxC
  /\ onProgress \in BOOLEAN
  /\ InitLocals
  /\ InitBeside

SpecZero == InitZero /\ [][Next]_vars

\* ------------------------------------------------------------------------
\* A progress callback that throws
\* ------------------------------------------------------------------------
\* what the callback throws
CallbackError == Error("render failed")

\* The race of the running attempt of the item at position k has settled
\* with o, and the callback throws on the first invocation made afterwards
\* (first) and on the one made by the catch branch it lands in (second).
\* The invocations made when an item starts return normally.
\*   - updateProgress() of the try branch throws inside the try block: the
\*     catch branch runs for an item that already has its Success;
\*   - updateProgress() of the catch branch throws out of the item's
\*     callback: its promise rejects, Promise.all rejects and uploadBatch
\*     rejects while the other items of the window go on.
ThrowingSettle(k, o, first, second) ==
  LET a == uploadWithRetry(o, uploads[k].retriesLeft, options)
      index == ItemIndex(i, k - i)
      callbackMessage == MessageOf(CallbackError) IN
  IF a.next = "retry" \/ ~first
  THEN Settle(k, o)
  ELSE
    /\ attempts' = [attempts EXCEPT ![k] = Append(@, o)]
    /\ IF a.next = "return"
       THEN \* try branch up to the throw, then the catch branch
            LET afterTry == Snapshot(inProgress - 1, successful + 1, failed,
                                     errors) IN
            /\ uploads' = [uploads EXCEPT ![k].state = "fulfilled",
                                          ![k].retriesLeft = 0,
                                          ![k].response = a.response]
            /\ inProgress' = inProgress - 2
            /\ successful' = successful + 1
            /\ failed' = CountFailure(failed)
            /\ errors' = Append(errors, ErrorEntry(index, callbackMessage))
            /\ results' = PushFailure(PushSuccess(results, index, a.response),
                                      index, callbackMessage)
            /\ snapshots' = Append(Append(snapshots, afterTry),
                                   Snapshot(inProgress', successful', failed',
                                            errors'))
            /\ pc' = IF second THEN "rejected" ELSE pc
       ELSE \* catch branch; the throw leaves the item's callback
            LET errorMessage == MessageOf(a.error[1]) IN
            /\ uploads' = [uploads EXCEPT ![k].state = "rejected",
                                          ![k].retriesLeft = 0,
                                          ![k].error = a.error]
            /\ inProgress' = inProgress - 1
            /\ failed' = CountFailure(failed)
            /\ errors' = Append(errors, ErrorEntry(index, errorMessage))
            /\ results' = PushFailure(results, index, errorMessage)
            /\ snapshots' = Append(snapshots,
                                   Snapshot(inProgress', successful, failed',
                                            errors'))
            /\ pc' = "rejected"
            /\ UNCHANGED successful
    /\ UNCHANGED <<calls, client, created, i, started, returned>>
    /\ UNCHANGED args

\* client.add settles before the timer of the attempt
ThrowingTransportSettles(k) ==
  /\ pc \in {"await", "rejected"}
  /\ uploads[k].state = "pending"
  /\ \E o \in TransportOutcomes(metadataArray[k + 1]), first, second \in BOOLEAN :
       ThrowingSettle(k, o, first, second)
  /\ staleTimers' = staleTimers + 1
  /\ UNCHANGED abandoned
  /\ UNCHANGED beside

\* the timer of the attempt fires before client.add settles
ThrowingTimerFires(k) ==
  /\ pc \in {"await", "rejected"}
  /\ uploads[k].state = "pending"
  /\ \E first, second \in BOOLEAN :
       ThrowingSettle(k, TimeoutOutcome, first, second)
  /\ abandoned' = abandoned + 1
  /\ UNCHANGED staleTimers
  /\ UNCHANGED beside

\* a callback is supplied
InitThrow ==
  /\ Init
  /\ total <= MaxLiveN
  /\ onProgress

NextThrow ==
  \/ UploadBatch
  \/ \E k \in Items : ThrowingTransportSettles(k)
  \/ \E k \in Items : ThrowingTimerFires(k)
  \/ LateSettle
  \/ LateTimer
  \/ WindowDone

SpecThrow == InitThrow /\ [][NextThrow]_vars

\* ------------------------------------------------------------------------
\* useBatchUpload: the hook that creates an instance, calls its uploadBatch
\* with handleProgress as the callback and keeps status, progress, results
\* and error
\* ------------------------------------------------------------------------
\* what onSuccess throws
SuccessCallbackError == Error("onSuccess failed")

\* uploadBatch of the hook up to the try block: setStatus('uploading'),
\* setError(null), setResults(null), setProgress of an empty progress
HookCalled(h) ==
  [h EXCEPT !.phase = "awaiting", !.status = "uploading", !.error = None,
            !.results = None, !.progress = Some(Snapshot(0, 0, 0, <<>>))]

\* handleProgress: setProgress(batchProgress) for each snapshot the
\* instance has delivered in the step
HookProgress(h, before, after) ==
  IF Len(after) > Len(before)
  THEN [h EXCEPT !.progress = Some(after[Len(after)])]
  ELSE h

\* Mutant: a batch with a failed item is an error
HookStatusOnResolve_NeedsSuccess(uploadResult) ==
  IF uploadResult.success THEN "success" ELSE "error"

\* setStatus('success') once client.uploadBatch has resolved
HookStatusOnResolve(uploadResult) == "success"

\* the rest of the try block once client.uploadBatch has resolved with
\* uploadResult; when onSuccess throws, the catch block
HookResolved(h, uploadResult, onSuccessThrows) ==
  LET t == [h EXCEPT !.status = HookStatusOnResolve(uploadResult),
                     !.results = Some(uploadResult),
                     !.progress = Some(uploadResult.progress)] IN
  IF onSuccessThrows
  THEN [t EXCEPT !.phase = "returned", !.status = "error",
                 !.error = Some(SuccessCallbackError), !.ret = "null"]
  ELSE [t EXCEPT !.phase = "returned", !.ret = "result"]

\* the catch block once client.uploadBatch has rejected with err
HookRejected(h, err) ==
  [h EXCEPT !.phase = "returned", !.status = "error", !.error = Some(err),
            !.ret = "null"]

\* The for loop of the instance's uploadBatch as the hook drives it: when
\* the call returns, the hook goes on in the same turn: the rest of its try
\* block, with client.disconnect() unless onSuccess throws.
HookLoop(h, j, onSuccessThrows) ==
  /\ i' = j
  /\ IF LoopTest(j)
     THEN /\ StartWindow(j)
          /\ pc' = "await"
          /\ hook' = HookProgress(h, snapshots, snapshots')
     ELSE /\ Return
          /\ pc' = "done"
          /\ client' = IF onSuccessThrows THEN client ELSE "null"
          /\ created' = created
          /\ hook' = HookResolved(h, returned'[1], onSuccessThrows)

\* uploadBatch of the hook is called
HookUploadBatch ==
  /\ hook.phase = "idle"
  /\ pc = "call"
  /\ \E onSuccessThrows \in BOOLEAN :
       HookLoop(HookCalled(hook), 0, onSuccessThrows)
  /\ UNCHANGED args
  /\ UNCHANGED <<probe, other>>

\* the hook after a step in which a race of the instance settled
HookSettled(h) ==
  LET p == HookProgress(h, snapshots, snapshots') IN
  IF pc' = "rejected" /\ pc # "rejected"
  THEN HookRejected(p, CallbackError)
  ELSE p

\* client.add settles before the timer of the attempt
HookTransportSettles(k) ==
  /\ pc \in {"await", "rejected"}
  /\ uploads[k].state = "pending"
  /\ \E o \in TransportOutcomes(metadataArray[k + 1]), first, second \in BOOLEAN :
       ThrowingSettle(k, o, first, second)
  /\ staleTimers' = staleTimers + 1
  /\ hook' = HookSettled(hook)
  /\ UNCHANGED abandoned
  /\ UNCHANGED <<probe, other>>

\* the timer of the attempt fires before client.add settles
HookTimerFires(k) ==
  /\ pc \in {"await", "rejected"}
  /\ uploads[k].state = "pending"
  /\ \E first, second \in BOOLEAN :
       ThrowingSettle(k, TimeoutOutcome, first, second)
  /\ abandoned' = abandoned + 1
  /\ hook' = HookSettled(hook)
  /\ UNCHANGED staleTimers
  /\ UNCHANGED <<probe, other>>

\* Promise.all(batchPromises) resolves
HookWindowDone ==
  /\ pc = "await"
  /\ AllSettled(Window(i))
  /\ \E onSuccessThrows \in BOOLEAN :
       HookLoop(hook, i + concurrency, onSuccessThrows)
  /\ UNCHANGED args
  /\ UNCHANGED <<probe, other>>

\* reset(): setStatus('idle'), setProgress(null), setResults(null),
\* setError(null)
HookReset ==
  /\ hook' = [hook EXCEPT !.status = "idle", !.progress = None,
                          !.results = None, !.error = None]
  /\ UNCHANGED <<client, created, pc, i, results, errors, successful, failed,
                 inProgress, uploads, calls, attempts, started, abandoned,
                 staleTimers, snapshots, returned>>
  /\ UNCHANGED args
  /\ UNCHANGED <<probe, other>>

\* the hook passes handleProgress, so the instance has a callback
InitHook ==
  /\ Init
  /\ total <= MaxLiveN
  /\ onProgress

NextHook ==
  \/ HookUploadBatch
  \/ \E k \in Items : HookTransportSettles(k)
  \/ \E k \in Items : HookTimerFires(k)
  \/ HookWindowDone
  \/ HookReset
  \/ LateSettle
  \/ LateTimer

SpecHook == InitHook /\ [][NextHook]_vars

\* ------------------------------------------------------------------------
\* Instances constructed with and without a gateway
\* ------------------------------------------------------------------------
CustomGateway == "https://my.gateway"

\* the arguments a constructor call is drawn from: retries alone, or retries
\* and a gateway
Givens(r) ==
  {[retries |-> r], [retries |-> r, gateway |-> CustomGateway]}

InitGateway ==
  /\ \E n \in 0..MaxLiveN, r \in 0..MaxRetries :
        /\ n * (r + 1) <= MaxCalls
        /\ metadataArray = [k \in 1..n |-> Payload(k - 1)]
        /\ \E given \in Givens(r) :
              /\ probe = Some(given)
              /\ options = Construct(given)
  /\ concurrency \in 1..MaxC
  /\ onProgress \in BOOLEAN
  /\ InitLocals
  /\ other = None
  /\ hook = HookIdle

SpecGateway == InitGateway /\ [][Next]_vars

\* ------------------------------------------------------------------------
\* isRetryableError called on its own
\* ------------------------------------------------------------------------
\* Messages as transports word them, with what the substring list says of
\* each: every listed substring in lower case, in upper case and inside a
\* sentence, and messages that hold none of them
ProbeCores ==
  {[text |-> "network", listed |-> TRUE],
   [text |-> "NETWORK", listed |-> TRUE],
   [text |-> "Network request failed", listed |-> TRUE],
   [text |-> "timeout", listed |-> TRUE],
   [text |-> "TIMEOUT", listed |-> TRUE],
   [text |-> "Request Timeout", listed |-> TRUE],
   [text |-> "econnrefused", listed |-> TRUE],
   [text |-> "ECONNREFUSED", listed |-> TRUE],
   [text |-> "connect ECONNREFUSED 127.0.0.1:5001", listed |-> TRUE],
   [text |-> "enotfound", listed |-> TRUE],
   [text |-> "ENOTFOUND", listed |-> TRUE],
   [text |-> "getaddrinfo ENOTFOUND api.nft.storage", listed |-> TRUE],
   [text |-> "etimedout", listed |-> TRUE],
   [text |-> "ETIMEDOUT", listed |-> TRUE],
   [text |-> "connect ETIMEDOUT 10.0.0.1:443", listed |-> TRUE],
   [text |-> "socket hang up", listed |-> TRUE],
   [text |-> "SOCKET HANG UP", listed |-> TRUE],
   [text |-> "Socket Hang Up", listed |-> TRUE],
   [text |-> "Invalid metadata schema", listed |-> FALSE],
   [text |-> "Invalid response from IPFS", listed |-> FALSE],
   [text |-> "net work", listed |-> FALSE],
   [text |-> "time out", listed |-> FALSE],
   [text |-> "socket hangup", listed |-> FALSE],
   [text |-> "ECONNRESET", listed |-> FALSE],
   [text |-> "", listed |-> FALSE]}

\* what a wrapper puts before and after the message
ProbePrefixes == {"", "Error: "}
ProbeSuffixes == {"", " (attempt 2)"}

\* The values isRetryableError is called with: Errors and thrown strings
ProbeInputs ==
  {[error |-> IF isError THEN Error(pre \o core.text \o post)
                         ELSE Thrown(pre \o core.text \o post),
    listed |-> core.listed,
    result |-> None] :
     core \in ProbeCores, pre \in ProbePrefixes, post \in ProbeSuffixes,
     isError \in BOOLEAN}

\* an instance on which nothing but the probe is going on
InitClassify ==
  /\ InitBatch
  /\ total = 0
  /\ concurrency = 1
  /\ ~onProgress
  /\ other = None
  /\ hook = HookIdle
  /\ probe \in {Some(in) : in \in ProbeInputs}

\* this.isRetryableError(error) runs and returns
Classify ==
  /\ probe # None
  /\ probe[1].result = None
  /\ probe' = Some([probe[1] EXCEPT
                      !.result = Some(isRetryableError(probe[1].error))])
  /\ UNCHANGED <<client, created, pc, i, results, errors, successful, failed,
                 inProgress, uploads, calls, attempts, started, abandoned,
                 staleTimers, snapshots, returned, other, hook>>
  /\ UNCHANGED args

NextClassify == Classify

SpecClassify == InitClassify /\ [][NextClassify]_vars

\* ------------------------------------------------------------------------
\* Properties
\* ------------------------------------------------------------------------
Settled(k) == uploads[k].state \in {"fulfilled", "rejected"}

\* positions of rs that hold an outcome with the given index
OutcomesOf(rs, index) == {j \in 1..Len(rs) : rs[j].index = index}

\* the window of the partition of 0..N-1 into runs of C that holds k
WindowOf(k) ==
  ((k \div concurrency) * concurrency) ..
  (Min(total, ((k \div concurrency) + 1) * concurrency) - 1)

\* the attempt was decided by the timer
TimedOut(o) == o.by = "timer"

\* the attempt failed with a transport error the specification classifies
\* as retryable
RetryableTransportError(o) ==
  /\ o.by = "transport"
  /\ o.settle = "reject"
  /\ o.error[1].type = "Error"
  /\ o.error[1].message \in {"Network request failed", "Upload timeout"}

\* the decided attempts of the window being processed, by who decided them
DecidedBy(who) ==
  {<<k, j>> \in Items \X (1..(MaxRetries + 1)) :
     j <= Len(attempts[k]) /\ attempts[k][j].by = who}

RetryableFailure(o) == TimedOut(o) \/ RetryableTransportError(o)

\* the attempt returned a content identifier
ValidResult(o) ==
  /\ o.by = "transport"
  /\ o.settle = "resolve"
  /\ o.result[1].cid # None

\* the attempt returned a result without a content identifier
InvalidResult(o) ==
  /\ o.by = "transport"
  /\ o.settle = "resolve"
  /\ o.result[1].cid = None

\* C1: when uploadBatch resolves, its results hold exactly one outcome per
\* submitted item: N entries with pairwise distinct indices covering 0..N-1.
C1_OneOutcomePerItem ==
  returned # None =>
    LET rs == returned[1].results IN
    /\ Len(rs) = total
    /\ \A a, b \in 1..Len(rs) : a # b => rs[a].index # rs[b].index
    /\ {rs[j].index : j \in 1..Len(rs)} = Items

\* a batch of several windows has resolved with successes and failures
C1_Witness ==
  /\ returned # None
  /\ total > concurrency
  /\ successful >= 1
  /\ failed >= 1
  /\ \E k \in Items : \E j \in 1..Len(attempts[k]) : TimedOut(attempts[k][j])

C3_ConcurrencyCeiling ==
  /\ inProgress <= concurrency
  /\ Cardinality({k \in Items : uploads[k].state = "pending"}) <= concurrency
  /\ \A j \in 1..Len(snapshots) : snapshots[j].inProgress <= concurrency

\* a full window of a longer list is in flight and the callback saw it
C3_Witness ==
  /\ concurrency >= 2
  /\ total > concurrency
  /\ inProgress = concurrency
  /\ Cardinality({k \in Items : uploads[k].state = "pending"}) = concurrency
  /\ snapshots # <<>>
  /\ snapshots[Len(snapshots)].inProgress = concurrency

C6_WindowOrdering ==
  /\ \A m \in 1..Len(started) : started[m] = m - 1
  /\ \A k \in Items : (uploads[k].state # "unstarted") <=> (k < Len(started))
  /\ pc = "await" =>
       /\ i % concurrency = 0
       /\ Len(started) = Min(total, i + concurrency)
  /\ \A k \in Items :
       uploads[k].state # "unstarted" =>
         \A h \in Items :
           h < (k \div concurrency) * concurrency =>
             Settled(h) /\ OutcomesOf(results, h) # {}
  /\ \A k \in Items :
       Settled(k) => \A h \in WindowOf(k) : uploads[h].state # "unstarted"
  /\ (concurrency >= total /\ pc = "await") =>
       i = 0 /\ Len(started) = total

\* the second window is in flight after a first window of two items, one
\* of which failed
C6_Witness ==
  /\ pc = "await"
  /\ concurrency = 2
  /\ i = 2
  /\ uploads[0].state = "rejected"
  /\ uploads[1].state = "fulfilled"
  /\ uploads[2].state = "pending"

\* C7: with options.retries = R, client.add is called at most R + 1 times
\* for one upload, whatever the attempts produce; after the (R+1)-th failed
\* attempt no further attempt is made.
C7_RetryBound ==
  \A k \in Items :
    /\ calls[k] <= options.retries + 1
    /\ Len(attempts[k]) <= options.retries + 1
    /\ Len(attempts[k]) = options.retries + 1 => uploads[k].state # "pending"

\* an upload with a retry budget has used all of it and was rejected
C7_Witness ==
  \E k \in Items :
    /\ options.retries >= 1
    /\ calls[k] = options.retries + 1
    /\ Len(attempts[k]) = options.retries + 1
    /\ uploads[k].state = "rejected"

\* C8: when the first M <= R attempts of an upload each fail with a timeout
\* or a retryable transport error, attempt M+1 is made, and when it returns
\* a content identifier the upload resolves after exactly M+1 client.add
\* calls; when all R+1 attempts fail this way the upload rejects and the
\* batch holds exactly one Failure outcome for the item.
C8_RetrySuccess ==
  \A k \in Items :
    LET a == attempts[k]
        n == Len(a) IN
    (n >= 1 /\ \A j \in 1..(n - 1) : RetryableFailure(a[j])) =>
      /\ (RetryableFailure(a[n]) /\ n <= options.retries) =>
           /\ uploads[k].state = "pending"
           /\ calls[k] = n + 1
      /\ (ValidResult(a[n]) /\ n - 1 <= options.retries) =>
           /\ uploads[k].state = "fulfilled"
           /\ calls[k] = n
      /\ (RetryableFailure(a[n]) /\ n = options.retries + 1) =>
           /\ uploads[k].state = "rejected"
           /\ calls[k] = n
           /\ Cardinality(OutcomesOf(results, k)) = 1
           /\ \A j \in OutcomesOf(results, k) : ~results[j].success

\* one upload succeeded on the attempt after a retryable transport error,
\* another was rejected after a timeout and a retryable transport error
C8_Witness ==
  /\ options.retries = 1
  /\ \E k \in Items :
       /\ Len(attempts[k]) = 2
       /\ RetryableTransportError(attempts[k][1])
       /\ ValidResult(attempts[k][2])
       /\ uploads[k].state = "fulfilled"
  /\ \E k \in Items :
       /\ Len(attempts[k]) = 2
       /\ TimedOut(attempts[k][1])
       /\ RetryableTransportError(attempts[k][2])
       /\ uploads[k].state = "rejected"

\* C9: while retries remain, a timed-out attempt is followed by a new
\* attempt with the remaining count one lower; when all R+1 attempts time
\* out, the upload rejects with an IPFSError of code TIMEOUT whose message
\* contains the configured retry count R.
C9_TimeoutExhaustion ==
  \A k \in Items :
    LET a == attempts[k]
        n == Len(a) IN
    (n >= 1 /\ \A j \in 1..n : TimedOut(a[j])) =>
      IF n <= options.retries
      THEN /\ uploads[k].state = "pending"
           /\ uploads[k].retriesLeft = options.retries - n
           /\ calls[k] = n + 1
      ELSE /\ uploads[k].state = "rejected"
           /\ uploads[k].error[1].type = "IPFSError"
           /\ uploads[k].error[1].code = "TIMEOUT"
           /\ includes(uploads[k].error[1].message,
                       " " \o ToString(options.retries) \o " ")

\* an upload with a retry budget timed out on every attempt
C9_Witness ==
  \E k \in Items :
    /\ options.retries >= 1
    /\ Len(attempts[k]) = options.retries + 1
    /\ \A j \in 1..Len(attempts[k]) : TimedOut(attempts[k][j])
    /\ uploads[k].state = "rejected"

\* C10: when client.add returns a result without a cid, the error uploadJSON
\* rejects with has code INVALID_RESPONSE.
C10_InvalidResponseKind ==
  \A k \in Items :
    (/\ attempts[k] # <<>>
     /\ InvalidResult(attempts[k][Len(attempts[k])])
     /\ uploads[k].state = "rejected") =>
      uploads[k].error[1].code = "INVALID_RESPONSE"

\* C11: a result without a content identifier is not retried: the upload
\* is rejected on that attempt and client.add is not called again for it,
\* even when retries remain.
C11_InvalidResponseNotRetried ==
  \A k \in Items :
    \A j \in 1..Len(attempts[k]) :
      InvalidResult(attempts[k][j]) =>
        /\ j = Len(attempts[k])
        /\ uploads[k].state = "rejected"
        /\ calls[k] = j

\* an upload with a retry budget was rejected on a first attempt that
\* returned no content identifier
C11_Witness ==
  \E k \in Items :
    /\ options.retries >= 1
    /\ Len(attempts[k]) = 1
    /\ InvalidResult(attempts[k][1])
    /\ uploads[k].state = "rejected"
    /\ calls[k] = 1

\* C12: when the last attempt of an upload fails with an Error thrown by
\* client.add that is not retryable, or that is retryable while no retries
\* are left, the upload rejects with an IPFSError of code UPLOAD_FAILED
\* whose message wraps the message of that Error and whose cause is that
\* very Error.
C12_GenericFailure ==
  \A k \in Items :
    LET a == attempts[k]
        n == Len(a) IN
    (/\ n >= 1
     /\ uploads[k].state = "rejected"
     /\ a[n].by = "transport"
     /\ a[n].settle = "reject"
     /\ a[n].error[1].type = "Error") =>
      /\ uploads[k].error[1].type = "IPFSError"
      /\ uploads[k].error[1].code = "UPLOAD_FAILED"
      /\ uploads[k].error[1].message =
           "IPFS upload failed: " \o a[n].error[1].message
      /\ uploads[k].error[1].cause = a[n].error

\* C13: the loser of a race has no effect. A step in which an abandoned
\* client.add call settles, or in which the timer of an attempt that
\* client.add decided fires, changes no counter, adds no outcome and no
\* errors entry, invokes no callback and settles no upload; and every
\* client.add call is decided exactly once: an item has one decided attempt
\* per call, less the one that is still racing.
C13_LoserIgnored ==
  [][/\ (abandoned' < abandoned \/ staleTimers' < staleTimers) =>
          UNCHANGED <<successful, failed, inProgress, results, errors,
                      snapshots, uploads, calls, attempts, returned>>
     /\ \A k \in Items :
          /\ Len(attempts'[k]) <= Len(attempts[k]) + 1
          /\ Len(attempts'[k]) =
               calls'[k] - (IF uploads'[k].state = "pending" THEN 1 ELSE 0)
    ]_vars

\* of the attempts of the live window the timer decided, one has had its
\* client.add call settle since, and of those client.add decided, one has
\* had its timer fire since; the batch went on and resolved
C13_Witness ==
  /\ returned # None
  /\ Cardinality(DecidedBy("timer")) > abandoned
  /\ Cardinality(DecidedBy("transport")) > staleTimers
  /\ successful >= 1
  /\ failed >= 1

\* C14: at no point of a batch are more than `concurrency` client.add
\* calls outstanding, where a call abandoned by a timeout counts as
\* outstanding until it settles.
C14_PeakOutstanding ==
  Cardinality({k \in Items : uploads[k].state = "pending"}) + abandoned
    <= concurrency

PrevSnapshot(j) ==
  IF j = 1 THEN Snapshot(0, 0, 0, <<>>) ELSE snapshots[j - 1]

\* invocations made before an upload starts: inProgress one higher
StartPositions ==
  {j \in 1..Len(snapshots) :
     /\ snapshots[j].inProgress = PrevSnapshot(j).inProgress + 1
     /\ snapshots[j].successful = PrevSnapshot(j).successful
     /\ snapshots[j].failed = PrevSnapshot(j).failed}

\* invocations made after an upload is over: inProgress one lower and
\* exactly one of successful and failed one higher
ResolvePositions ==
  {j \in 1..Len(snapshots) :
     /\ snapshots[j].inProgress = PrevSnapshot(j).inProgress - 1
     /\ \/ /\ snapshots[j].successful = PrevSnapshot(j).successful + 1
           /\ snapshots[j].failed = PrevSnapshot(j).failed
        \/ /\ snapshots[j].successful = PrevSnapshot(j).successful
           /\ snapshots[j].failed = PrevSnapshot(j).failed + 1}

\* how many members of a set of positions are at most j
RankIn(S, j) == Cardinality({x \in S : x <= j})

CountersInRange(inProg, succ, fail, tot) ==
  /\ inProg >= 0
  /\ succ >= 0
  /\ fail >= 0
  /\ succ + fail <= tot
  /\ succ + fail + inProg <= tot
  /\ tot = Len(metadataArray)

FailurePositions(rs) == {j \in 1..Len(rs) : ~rs[j].success}

\* the errors entry C18 expects for a Failure outcome
EntryFor(outcome) ==
  "Index " \o ToString(outcome.index) \o ": " \o outcome.error[1]

\* text starts with prefix
StartsWith(text, prefix) ==
  /\ Len(text) >= Len(prefix)
  /\ SubSeq(text, 1, Len(prefix)) = prefix

C19_EmptyInput ==
  total = 0 =>
    /\ started = <<>>
    /\ client = "null"
    /\ abandoned = 0
    /\ staleTimers = 0
    /\ snapshots = <<>>
    /\ pc # "call" =>
         returned = Some([results |-> <<>>,
                          success |-> TRUE,
                          progress |-> [inProgress |-> 0, total |-> 0,
                                        successful |-> 0, failed |-> 0,
                                        errors |-> <<>>]])

\* uploadBatch was called with an empty list and a callback, and resolved
C19_Witness ==
  /\ total = 0
  /\ onProgress
  /\ pc = "done"
  /\ returned # None

\* C20: for every list and every concurrency >= 1, when the timer of each
\* attempt fires in the end and the callback returns, uploadBatch resolves
\* in the end with an outcome for every item, even if no client.add call
\* ever settles.
C20_Termination ==
  <>(/\ returned # None
     /\ Len(returned[1].results) = total
     /\ \A k \in Items : Settled(k))

\* a batch with a retry budget has resolved although none of the
\* client.add calls made for it has settled: the timer decided every
\* attempt
C20_Witness ==
  /\ returned # None
  /\ total >= 2
  /\ options.retries >= 1
  /\ failed = total
  /\ staleTimers = 0
  /\ abandoned = total * (options.retries + 1)

\* C21: isRetryableError returns true for an Error exactly when its
\* message, lower-cased, contains one of 'network', 'timeout',
\* 'econnrefused', 'enotfound', 'etimedout', 'socket hang up': 'Network
\* request failed' is retryable, 'Invalid metadata schema' is not. The
\* result depends on the message alone and the call changes no state.
C21_Classification ==
  [][(probe' # None /\ probe'[1].result # None) =>
       /\ probe'[1].result[1] =
            (probe'[1].error.type = "Error" /\ probe'[1].listed)
       /\ probe'[1].error = Error("Network request failed") =>
            probe'[1].result[1]
       /\ probe'[1].error = Error("Invalid metadata schema") =>
            ~probe'[1].result[1]
       /\ probe'[1].error = probe[1].error
       /\ UNCHANGED <<client, options>>
    ]_vars

\* the function has returned true for an upper-case code inside a
\* sentence
C21_Witness ==
  /\ probe # None
  /\ probe[1].error =
       Error("Error: connect ECONNREFUSED 127.0.0.1:5001 (attempt 2)")
  /\ probe[1].result = Some(TRUE)

\* C22: create() constructs the transport handle of an instance at most
\* once, whatever uploadJSON, uploadBatch and disconnect calls are made on
\* the instance.
C22_HandleOnce == created <= 1

\* the first invocation, laid out as the frame of the second is
FirstFrame ==
  [metadataArray |-> metadataArray, concurrency |-> concurrency, pc |-> pc,
   i |-> i, results |-> results, errors |-> errors,
   successful |-> successful, failed |-> failed, inProgress |-> inProgress,
   uploads |-> uploads, snapshots |-> snapshots, returned |-> returned]

\* the counters, errors, snapshots and results of a frame count the items
\* of its own list only, and what it returned is conservative and ordered
\* for that list
OwnItemsOnly(f) ==
  LET N == Len(f.metadataArray)
      own == 0 .. (N - 1)
      inState(st) == {k \in own : f.uploads[k].state = st} IN
  /\ f.successful = Cardinality(inState("fulfilled"))
  /\ f.failed = Cardinality(inState("rejected"))
  /\ f.inProgress = Cardinality(inState("pending"))
  /\ Len(f.errors) = f.failed
  /\ Len(f.results) = f.successful + f.failed
  /\ Cardinality({f.results[j].index : j \in 1..Len(f.results)})
       = Len(f.results)
  /\ \A j \in 1..Len(f.results) :
       LET r == f.results[j] IN
       /\ r.index \in own
       /\ r.success = (f.uploads[r.index].state = "fulfilled")
       /\ r.success =>
            r.response[1].hash = Cid(f.metadataArray[r.index + 1])
       /\ ~r.success =>
            \E m \in 1..Len(f.errors) :
              f.errors[m] = "Index " \o ToString(r.index) \o ": "
                            \o r.error[1]
  /\ Len(f.snapshots) = N - Cardinality(inState("unstarted"))
                          + f.successful + f.failed
  /\ \A j \in 1..Len(f.snapshots) :
       /\ f.snapshots[j].total = N
       /\ f.snapshots[j].successful + f.snapshots[j].failed
            + f.snapshots[j].inProgress <= N
       /\ Len(f.snapshots[j].errors) = f.snapshots[j].failed
  /\ f.returned # None =>
       LET ret == f.returned[1] IN
       /\ Len(ret.results) = N
       /\ \A k \in own : ret.results[k + 1].index = k
       /\ ret.progress.total = N
       /\ ret.progress.successful + ret.progress.failed = N
       /\ ret.progress.errors = f.errors
       /\ ret.success = (\A k \in own : ret.results[k + 1].success)

GatewayOf(given) ==
  IF "gateway" \in DOMAIN given THEN given.gateway ELSE DEFAULT_GATEWAY

C25_ThrowingCallback ==
  /\ \A k \in Items :
       uploads[k].state = "fulfilled" =>
         /\ Cardinality(OutcomesOf(results, k)) = 1
         /\ \A j \in OutcomesOf(results, k) : results[j].success
  /\ successful + failed <= total
  /\ inProgress >= 0

\* the attempt failed with an Error thrown by client.add whose message holds
\* none of the retryable substrings
NonRetryableTransportError(o) ==
  /\ o.by = "transport"
  /\ o.settle = "reject"
  /\ o.error[1].type = "Error"
  /\ o.error[1].message = "Invalid metadata schema"

\* C26: an attempt that fails with an Error whose message holds none of the
\* retryable substrings is the last attempt of its upload: the upload
\* rejects at once and client.add is not called again for the item, even
\* when retries remain.
C26_NonRetryableEnds ==
  \A k \in Items :
    \A j \in 1..Len(attempts[k]) :
      NonRetryableTransportError(attempts[k][j]) =>
        /\ j = Len(attempts[k])
        /\ calls[k] = j
        /\ uploads[k].state = "rejected"
        /\ uploads[k].error[1].code = "UPLOAD_FAILED"

\* with a retry left, the first attempt of an upload failed with a
\* non-retryable Error and the upload is over after one client.add call
C26_Witness ==
  /\ total >= 1
  /\ options.retries = 1
  /\ Len(attempts[0]) = 1
  /\ NonRetryableTransportError(attempts[0][1])
  /\ uploads[0].state = "rejected"
  /\ calls[0] = 1

\* C27: timeouts and retryable transport errors draw on one retry budget:
\* while an upload is running the remaining count is options.retries less
\* the number of failed attempts, whichever way each failed; and when the
\* budget is used up the code of the final error follows the last attempt
\* alone: TIMEOUT when the timer decided it, UPLOAD_FAILED when client.add
\* threw.
C27_SharedBudget ==
  \A k \in Items :
    LET a == attempts[k]
        n == Len(a) IN
    /\ uploads[k].state = "pending" =>
         /\ uploads[k].retriesLeft = options.retries - n
         /\ \A j \in 1..n : RetryableFailure(a[j])
    /\ (/\ uploads[k].state = "rejected"
        /\ n = options.retries + 1
        /\ \A j \in 1..n : RetryableFailure(a[j])) =>
         /\ TimedOut(a[n]) => uploads[k].error[1].code = "TIMEOUT"
         /\ RetryableTransportError(a[n]) =>
              uploads[k].error[1].code = "UPLOAD_FAILED"

\* C28: in every step the snapshots delivered before it are unchanged, and
\* every snapshot the step delivers carries as many errors entries as its
\* failed count, successful and failed counts no lower than those of the
\* snapshot before it, and an errors list that starts with the errors list
\* of the snapshot before it.
C28_SnapshotsGrow ==
  [][/\ Len(snapshots') >= Len(snapshots)
     /\ SubSeq(snapshots', 1, Len(snapshots)) = snapshots
     /\ \A j \in (Len(snapshots) + 1)..Len(snapshots') :
          LET new == snapshots'[j]
              old == IF j = 1 THEN Snapshot(0, 0, 0, <<>>)
                     ELSE snapshots'[j - 1] IN
          /\ Len(new.errors) = new.failed
          /\ new.successful >= old.successful
          /\ new.failed >= old.failed
          /\ Len(new.errors) >= Len(old.errors)
          /\ SubSeq(new.errors, 1, Len(old.errors)) = old.errors
    ]_vars

\* a second failure was reported after a snapshot with one failure and one
\* errors entry had been delivered
C28_Witness ==
  /\ Len(snapshots) >= 4
  /\ snapshots[Len(snapshots)].failed = 2
  /\ Len(snapshots[Len(snapshots)].errors) = 2
  /\ \E j \in 1..(Len(snapshots) - 1) :
       /\ snapshots[j].failed = 1
       /\ snapshots[j].errors = <<errors[1]>>

\* C29: uploadBatch called with concurrency 0 and at least one payload
\* never gets anywhere: the loop variable stays at 0, no upload is started,
\* client.add is not called, the callback is not invoked, no outcome is
\* recorded and the call does not resolve.
C29_ZeroConcurrency ==
  (concurrency = 0 /\ total >= 1) =>
    /\ i = 0
    /\ pc \in {"call", "await"}
    /\ started = <<>>
    /\ \A k \in Items : uploads[k].state = "unstarted" /\ calls[k] = 0
    /\ inProgress = 0
    /\ snapshots = <<>>
    /\ results = <<>>
    /\ errors = <<>>
    /\ returned = None

\* the call was made with concurrency 0 and two payloads, with a callback,
\* and is awaiting a window
C29_Witness ==
  /\ concurrency = 0
  /\ total = 2
  /\ onProgress
  /\ pc = "await"

\* C30: the status of useBatchUpload. The step in which the hook's
\* uploadBatch is called sets status to 'uploading'; the step in which
\* client.uploadBatch resolves sets it to 'success' and the call returns the
\* result, whether or not items failed, unless a callback throws; status
\* becomes 'error' only with the call returning null and an exception that
\* escaped client.uploadBatch or a callback stored in error; and a step that
\* brings status back to 'idle' leaves progress, results and error empty.
C30_StatusMachine ==
  [][/\ (hook.phase = "idle" /\ hook'.phase = "awaiting") =>
          hook'.status = "uploading"
     /\ (returned = None /\ returned' # None) =>
          \/ /\ hook'.status = "success"
             /\ hook'.results = returned'
             /\ hook'.ret = "result"
             /\ hook'.error = None
          \/ /\ hook'.status = "error"
             /\ hook'.error = Some(SuccessCallbackError)
             /\ hook'.ret = "null"
     /\ (hook'.status = "success" /\ hook.status # "success") =>
          returned = None /\ returned' # None
     /\ (hook'.status = "error" /\ hook.status # "error") =>
          /\ hook'.ret = "null"
          /\ hook'.error \in {Some(CallbackError), Some(SuccessCallbackError)}
          /\ hook'.error = Some(CallbackError) => pc' = "rejected"
     /\ (hook'.ret = "null" /\ hook.ret # "null") => hook'.status = "error"
     /\ (hook'.status = "idle" /\ hook.status # "idle") =>
          /\ hook'.progress = None
          /\ hook'.results = None
          /\ hook'.error = None
    ]_vars

\* client.uploadBatch has resolved with every item failed and the hook's
\* call has returned that result with status 'success'
C30_Witness ==
  /\ hook.status = "success"
  /\ hook.ret = "result"
  /\ returned # None
  /\ ~returned[1].success
  /\ returned[1].progress.failed = total
  /\ total = 2
====
